---------------------------- MODULE Spec2Model ----------------------------
(***************************************************************************)
(* Model of infra/remote-setup.py: the remote bootstrap runner.            *)
(*                                                                         *)
(* The script is one linear sequence of statements with a single try /     *)
(* except.  Text is modelled as sequences of one-character strings, so     *)
(* that formatting (the f-string transcript, print) is computed character  *)
(* by character.  The environment (the sibling file, whether the expect    *)
(* binary is installed) is fixed in the initial state; what the            *)
(* subprocess does (its output, its return code, whether it outlives the   *)
(* timeout) is chosen when the call completes.                             *)
(***************************************************************************)
EXTENDS Integers, Sequences, FiniteSets, TLC

VARIABLES
    fs,               \* content of setup-on-server.sh on disk, or NoFile
    expectInstalled,  \* whether an `expect` executable can be launched
    pc,               \* the statement about to run
    setup_script,     \* line 13
    expect_script,    \* line 16
    child,            \* the subprocess started by subprocess.run
    result,           \* the CompletedProcess of line 32
    writes,           \* what was written to stdout / stderr, in order
    ended,            \* how the process ended
    exitArg,          \* the argument given to sys.exit, if it was called
    exitStatus,       \* the exit status the parent process observes
    events            \* the operations performed so far, in order

vars == <<fs, expectInstalled, pc, setup_script, expect_script, child,
          result, writes, ended, exitArg, exitStatus, events>>

-----------------------------------------------------------------------------
(* Bounds of the model.                                                    *)

\* longest content of the bootstrap file that is explored
MaxLen == 2

\* characters a bootstrap file is made of: a letter, both line-end
\* characters, and the quote that delimits the send argument
FileChars == {"a", "\n", "\r", "\""}

RECURSIVE SeqsUpTo(_, _)
SeqsUpTo(S, n) ==
    IF n = 0 THEN {<<>>}
    ELSE LET shorter == SeqsUpTo(S, n - 1)
         IN  shorter \cup {Append(s, c) : s \in {t \in shorter : Len(t) = n - 1}, c \in S}

FileContents == SeqsUpTo(FileChars, MaxLen)

\* captured output of the subprocess
ChildStdouts == {<<>>, <<"o", "k">>}
ChildStderrs == {<<>>, <<"e", "r", "r">>}

\* return codes subprocess.run can report: an exit status 0..255, or -N when
\* the child was terminated by signal N
ReturnCodes == {-9, 0, 1, 255}

NoFile == <<"NOFILE">>
Unset == <<"UNSET">>

-----------------------------------------------------------------------------
(* Literal text of the source.                                             *)

VPS_IP ==
    <<"1", "5", "9", ".", "8", "9", ".", "1", "1", "3", ".", "2", "4", "2">>

VPS_USER ==
    <<"r", "o", "o", "t">>

VPS_PASS ==
    <<"A", "V", "a", "l", "l", "o", "n", "1", "2", "3", "1", "4", "0", "2",
      "@", "r", "o", "o", "o", "t">>

Shebang ==
    <<"#", "!", "/", "u", "s", "r", "/", "b", "i", "n", "/", "e", "x", "p",
      "e", "c", "t", " ", "-", "f", "\n">>

SetTimeout ==
    <<"s", "e", "t", " ", "t", "i", "m", "e", "o", "u", "t", " ", "3", "0",
      "0", "\n">>

SpawnSshPrefix ==
    <<"s", "p", "a", "w", "n", " ", "s", "s", "h", " ", "-", "o", " ", "S",
      "t", "r", "i", "c", "t", "H", "o", "s", "t", "K", "e", "y", "C", "h",
      "e", "c", "k", "i", "n", "g", "=", "n", "o", " ">>

ExpectPassword ==
    <<"e", "x", "p", "e", "c", "t", " ", "\"", "p", "a", "s", "s", "w",
      "o", "r", "d", ":", "\"", "\n">>

SendOpen ==
    <<"s", "e", "n", "d", " ", "\"">>

CrClose ==
    <<"\\", "r", "\"", "\n">>

ExpectPrompt ==
    <<"e", "x", "p", "e", "c", "t", " ", "\"", "#", " ", "\"", "\n">>

SendHeredocOpen ==
    <<"s", "e", "n", "d", " ", "\"", "b", "a", "s", "h", " ", "<", "<",
      " ", "'", "R", "E", "M", "O", "T", "E", "_", "S", "C", "R", "I", "P",
      "T", "'", "\\", "r", "\"", "\n">>

QuoteNl ==
    <<"\"", "\n">>

SendHeredocClose ==
    <<"s", "e", "n", "d", " ", "\"", "R", "E", "M", "O", "T", "E", "_",
      "S", "C", "R", "I", "P", "T", "\\", "r", "\"", "\n">>

SendExit ==
    <<"s", "e", "n", "d", " ", "\"", "e", "x", "i", "t", "\\", "r", "\"",
      "\n">>

ExpectEof ==
    <<"e", "x", "p", "e", "c", "t", " ", "e", "o", "f", "\n">>

FallbackNotice ==
    <<"e", "x", "p", "e", "c", "t", " ", "n", "o", "t", " ", "f", "o", "u",
      "n", "d", ".", " ", "T", "r", "y", "i", "n", "g", " ", "a", "l", "t",
      "e", "r", "n", "a", "t", "i", "v", "e", " ", "m", "e", "t", "h", "o",
      "d", ".", ".", ".">>

RunManually ==
    <<"P", "l", "e", "a", "s", "e", " ", "r", "u", "n", " ", "t", "h", "i",
      "s", " ", "c", "o", "m", "m", "a", "n", "d", " ", "m", "a", "n", "u",
      "a", "l", "l", "y", ":">>

ScpPrefix ==
    <<"\n", "s", "c", "p", " ", "i", "n", "f", "r", "a", "/", "s", "e",
      "t", "u", "p", "-", "o", "n", "-", "s", "e", "r", "v", "e", "r", ".",
      "s", "h", " ", "r", "o", "o", "t", "@">>

ScpSuffix ==
    <<":", "/", "t", "m", "p", "/">>

SshPrefix ==
    <<"\n", "s", "s", "h", " ", "r", "o", "o", "t", "@">>

ChmodLine ==
    <<"c", "h", "m", "o", "d", " ", "+", "x", " ", "/", "t", "m", "p", "/",
      "s", "e", "t", "u", "p", "-", "o", "n", "-", "s", "e", "r", "v", "e",
      "r", ".", "s", "h">>

RunLine ==
    <<"/", "t", "m", "p", "/", "s", "e", "t", "u", "p", "-", "o", "n", "-",
      "s", "e", "r", "v", "e", "r", ".", "s", "h">>

StderrTag ==
    <<"S", "T", "D", "E", "R", "R", ":">>

FileNotFoundErrorName ==
    <<"F", "i", "l", "e", "N", "o", "t", "F", "o", "u", "n", "d", "E", "r",
      "r", "o", "r">>

TimeoutExpiredName ==
    <<"T", "i", "m", "e", "o", "u", "t", "E", "x", "p", "i", "r", "e", "d">>

TracebackHeader ==
    <<"T", "r", "a", "c", "e", "b", "a", "c", "k", " ", "(", "m", "o", "s",
      "t", " ", "r", "e", "c", "e", "n", "t", " ", "c", "a", "l", "l", " ",
      "l", "a", "s", "t", ")", ":", "\n">>

-----------------------------------------------------------------------------
(* Pure functions.                                                         *)

\* f.read() on a file opened in text mode ('r'): universal newlines turn
\* "\r\n" and a lone "\r" into "\n"
RECURSIVE ReadText(_)
ReadText(b) ==
    IF b = <<>> THEN <<>>
    ELSE IF Head(b) = "\r"
         THEN <<"\n">> \o ReadText(IF Len(b) > 1 /\ b[2] = "\n"
                                   THEN SubSeq(b, 3, Len(b))
                                   ELSE Tail(b))
         ELSE <<Head(b)>> \o ReadText(Tail(b))

\* a transcript that sends the password before waiting for its prompt
ExpectScript_PasswordFirst(user, ip, pass, script) ==
    Shebang
    \o SetTimeout
    \o SpawnSshPrefix \o user \o <<"@">> \o ip \o <<"\n">>
    \o SendOpen \o pass \o CrClose
    \o ExpectPassword
    \o ExpectPrompt
    \o SendHeredocOpen
    \o SendOpen \o script \o QuoteNl
    \o SendHeredocClose
    \o ExpectPrompt
    \o SendExit
    \o ExpectEof

\* a transcript that backslash-escapes the quotes of the script body
RECURSIVE EscapeQuotes(_)
EscapeQuotes(s) ==
    IF s = <<>> THEN <<>>
    ELSE (IF Head(s) = "\"" THEN <<"\\", "\"">> ELSE <<Head(s)>>)
         \o EscapeQuotes(Tail(s))

ExpectScript_Escaped(user, ip, pass, script) ==
    Shebang
    \o SetTimeout
    \o SpawnSshPrefix \o user \o <<"@">> \o ip \o <<"\n">>
    \o ExpectPassword
    \o SendOpen \o pass \o CrClose
    \o ExpectPrompt
    \o SendHeredocOpen
    \o SendOpen \o EscapeQuotes(script) \o QuoteNl
    \o SendHeredocClose
    \o ExpectPrompt
    \o SendExit
    \o ExpectEof

\* the f-string of lines 16-28: literal text with the four values
\* interpolated as they are
ExpectScript(user, ip, pass, script) ==
    Shebang
    \o SetTimeout
    \o SpawnSshPrefix \o user \o <<"@">> \o ip \o <<"\n">>
    \o ExpectPassword
    \o SendOpen \o pass \o CrClose
    \o ExpectPrompt
    \o SendHeredocOpen
    \o SendOpen \o script \o QuoteNl
    \o SendHeredocClose
    \o ExpectPrompt
    \o SendExit
    \o ExpectEof

\* "=" * 60
RuleWidth == 60
Rule == [i \in 1..RuleWidth |-> "="]

\* print(text, file=file): the text followed by a newline
PrintLine(file, text) ==
    [file |-> file, text |-> text \o <<"\n">>, by |-> "print"]

\* the fallback written with file=sys.stderr
FallbackFile_Stderr == "stderr"

\* the print calls of the except block have no file argument
FallbackFile == "stdout"

\* the arguments of the nine print calls of lines 43-52
FallbackTexts ==
    << FallbackNotice,
       <<"\n">> \o Rule,
       RunManually,
       Rule,
       ScpPrefix \o VPS_IP \o ScpSuffix,
       SshPrefix \o VPS_IP,
       ChmodLine,
       RunLine,
       <<"\n">> \o Rule >>

FallbackOutput ==
    [i \in 1..Len(FallbackTexts) |-> PrintLine(FallbackFile, FallbackTexts[i])]

\* standard error shown only when the child failed
StderrIsPrinted_OnFailure(r) == r.returncode # 0

\* line 39: `if result.stderr:` is true of a non-empty string
StderrIsPrinted(r) == r.stderr # <<>>

\* line 40: print("STDERR:", result.stderr, file=sys.stderr) joins its two
\* arguments with one space
StderrLine(r) == PrintLine("stderr", StderrTag \o <<" ">> \o r.stderr)

\* an exit code reduced to success / failure
ExitArgument_Clamped(r) == IF r.returncode = 0 THEN 0 ELSE 1

\* line 41: the argument of sys.exit
ExitArgument(r) == r.returncode

\* the exit status the parent sees after sys.exit(c): the low eight bits
ExitStatusOf(c) == c % 256

\* a try block that also encloses the open of line 12
InTry_WithOpen(site) ==
    site \in {"open", "run", "wait", "print_stdout", "check_stderr", "exit"}

\* the statements inside the try block (lines 32-41)
InTry(site) == site \in {"run", "wait", "print_stdout", "check_stderr", "exit"}

\* an except clause for the timeout instead of the missing executable
Caught_Timeout(exc) == exc = "TimeoutExpired"

\* an except clause that catches every error
Caught_Any(exc) == TRUE

\* line 42: the only except clause
Caught(exc) == exc = "FileNotFoundError"

Handled(exc, site) == InTry(site) /\ Caught(exc)

ExcName(exc) ==
    IF exc = "FileNotFoundError" THEN FileNotFoundErrorName ELSE TimeoutExpiredName

\* what the interpreter writes for an exception nothing catches
Traceback(exc) ==
    [file |-> "stderr", text |-> TracebackHeader \o ExcName(exc) \o <<"\n">>,
     by |-> "traceback"]

-----------------------------------------------------------------------------
(* Control flow.                                                           *)

\* an exception raised by the statement at `site`: control moves to the
\* except block if the statement is inside the try and the clause matches;
\* otherwise the interpreter reports it and the process ends with status 1
Raise(exc, site) ==
    /\ UNCHANGED exitArg
    /\ IF Handled(exc, site)
       THEN /\ pc' = "except"
            /\ UNCHANGED <<writes, ended, exitStatus>>
       ELSE /\ pc' = "done"
            /\ writes' = Append(writes, Traceback(exc))
            /\ ended' = exc
            /\ exitStatus' = <<1>>

\* sys.exit(arg): SystemExit is not a FileNotFoundError, so it leaves the
\* try block and ends the process
SysExit(arg) ==
    /\ pc' = "done"
    /\ ended' = "SystemExit"
    /\ exitArg' = <<arg>>
    /\ exitStatus' = <<ExitStatusOf(arg)>>

NoChild == [state |-> "none", argv |-> <<>>]

Init ==
    /\ fs \in FileContents \cup {NoFile}
    /\ expectInstalled \in BOOLEAN
    /\ pc = "open"
    /\ setup_script = Unset
    /\ expect_script = Unset
    /\ child = NoChild
    /\ result = <<>>
    /\ writes = <<>>
    /\ ended = "no"
    /\ exitArg = <<>>
    /\ exitStatus = <<>>
    /\ events = <<>>

\* lines 11-13: open the sibling file and read all of it
OpenScriptOk ==
    /\ pc = "open"
    /\ fs # NoFile
    /\ setup_script' = ReadText(fs)
    /\ pc' = "build"
    /\ events' = events \o <<"open", "read">>
    /\ UNCHANGED <<fs, expectInstalled, expect_script, child, result, writes,
                   ended, exitArg, exitStatus>>

\* line 12 when the file does not exist: open raises FileNotFoundError
OpenScriptMissing ==
    /\ pc = "open"
    /\ fs = NoFile
    /\ Raise("FileNotFoundError", "open")
    /\ events' = Append(events, "open")
    /\ UNCHANGED <<fs, expectInstalled, setup_script, expect_script, child, result>>

\* lines 16-28
BuildTranscript ==
    /\ pc = "build"
    /\ expect_script' = ExpectScript(VPS_USER, VPS_IP, VPS_PASS, setup_script)
    /\ pc' = "run"
    /\ events' = Append(events, "build")
    /\ UNCHANGED <<fs, expectInstalled, setup_script, child, result, writes,
                   ended, exitArg, exitStatus>>

\* lines 32-37, starting the child: ['expect', '-c', expect_script]
RunSpawn ==
    /\ pc = "run"
    /\ expectInstalled
    /\ child' = [state |-> "running",
                 argv |-> <<<<"expect">>, <<"-c">>, expect_script>>]
    /\ pc' = "wait"
    /\ events' = events \o <<"run", "spawn">>
    /\ UNCHANGED <<fs, expectInstalled, setup_script, expect_script, result,
                   writes, ended, exitArg, exitStatus>>

\* lines 32-37 when there is no expect executable: no child is started and
\* subprocess.run raises FileNotFoundError
RunNotFound ==
    /\ pc = "run"
    /\ ~expectInstalled
    /\ Raise("FileNotFoundError", "run")
    /\ events' = Append(events, "run")
    /\ UNCHANGED <<fs, expectInstalled, setup_script, expect_script, child, result>>

\* the transcript dropped once the child has exited
RunReturn_Discard ==
    /\ pc = "wait"
    /\ \E out \in ChildStdouts, err \in ChildStderrs, rc \in ReturnCodes :
         result' = <<[stdout |-> out, stderr |-> err, returncode |-> rc]>>
    /\ child' = [child EXCEPT !.state = "exited"]
    /\ expect_script' = <<>>
    /\ pc' = "print_stdout"
    /\ events' = Append(events, "return")
    /\ UNCHANGED <<fs, expectInstalled, setup_script, writes,
                   ended, exitArg, exitStatus>>

\* lines 32-37, the child ends within the timeout: its output and return
\* code are captured
RunReturn ==
    /\ pc = "wait"
    /\ \E out \in ChildStdouts, err \in ChildStderrs, rc \in ReturnCodes :
         result' = <<[stdout |-> out, stderr |-> err, returncode |-> rc]>>
    /\ child' = [child EXCEPT !.state = "exited"]
    /\ pc' = "print_stdout"
    /\ events' = Append(events, "return")
    /\ UNCHANGED <<fs, expectInstalled, setup_script, expect_script, writes,
                   ended, exitArg, exitStatus>>

\* lines 32-37, the child is still running after 600 seconds:
\* subprocess.run kills it and raises TimeoutExpired
RunTimeout ==
    /\ pc = "wait"
    /\ child' = [child EXCEPT !.state = "killed"]
    /\ Raise("TimeoutExpired", "wait")
    /\ events' = Append(events, "timeout")
    /\ UNCHANGED <<fs, expectInstalled, setup_script, expect_script, result>>

\* line 38
PrintStdout ==
    /\ pc = "print_stdout"
    /\ writes' = Append(writes, PrintLine("stdout", result[1].stdout))
    /\ pc' = "check_stderr"
    /\ events' = Append(events, "print_stdout")
    /\ UNCHANGED <<fs, expectInstalled, setup_script, expect_script, child,
                   result, ended, exitArg, exitStatus>>

\* lines 39-40
PrintStderr ==
    /\ pc = "check_stderr"
    /\ writes' = IF StderrIsPrinted(result[1])
                 THEN Append(writes, StderrLine(result[1]))
                 ELSE writes
    /\ pc' = "exit"
    /\ events' = Append(events, "check_stderr")
    /\ UNCHANGED <<fs, expectInstalled, setup_script, expect_script, child,
                   result, ended, exitArg, exitStatus>>

\* a failed session run again instead of ending the process
ExitReturnCode_Retry ==
    /\ pc = "exit"
    /\ IF result[1].returncode # 0
       THEN /\ pc' = "run"
            /\ events' = Append(events, "retry")
            /\ UNCHANGED <<ended, exitArg, exitStatus>>
       ELSE /\ SysExit(ExitArgument(result[1]))
            /\ events' = Append(events, "exit")
    /\ UNCHANGED <<fs, expectInstalled, setup_script, expect_script, child,
                   result, writes>>

\* line 41
ExitReturnCode ==
    /\ pc = "exit"
    /\ SysExit(ExitArgument(result[1]))
    /\ events' = Append(events, "exit")
    /\ UNCHANGED <<fs, expectInstalled, setup_script, expect_script, child,
                   result, writes>>

\* lines 43-52
Fallback ==
    /\ pc = "except"
    /\ writes' = writes \o FallbackOutput
    /\ pc' = "exit1"
    /\ events' = Append(events, "fallback")
    /\ UNCHANGED <<fs, expectInstalled, setup_script, expect_script, child,
                   result, ended, exitArg, exitStatus>>

\* line 53
ExitOne ==
    /\ pc = "exit1"
    /\ SysExit(1)
    /\ events' = Append(events, "exit")
    /\ UNCHANGED <<fs, expectInstalled, setup_script, expect_script, child,
                   result, writes>>

Next ==
    \/ OpenScriptOk
    \/ OpenScriptMissing
    \/ BuildTranscript
    \/ RunSpawn
    \/ RunNotFound
    \/ RunReturn
    \/ RunTimeout
    \/ PrintStdout
    \/ PrintStderr
    \/ ExitReturnCode
    \/ Fallback
    \/ ExitOne

Spec == Init /\ [][Next]_vars

-----------------------------------------------------------------------------
(* Vocabulary of the properties.                                           *)

\* the positions >= from at which s occurs in t
Occurrences(t, s, from) ==
    {i \in from..(Len(t) - Len(s) + 1) :
        \A k \in 1..Len(s) : t[i + k - 1] = s[k]}

\* the first position >= from at which s occurs in t, or 0
Find(t, s, from) ==
    LET hits == Occurrences(t, s, from)
    IN  IF hits = {} THEN 0
        ELSE CHOOSE i \in hits : \A j \in hits : i <= j

Contains(t, s) == Find(t, s, 1) > 0

Count(seq, e) == Cardinality({i \in DOMAIN seq : seq[i] = e})

Happened(e) == \E i \in DOMAIN events : events[i] = e

\* the first position of event e, or 0
Position(e) ==
    IF Happened(e) THEN CHOOSE i \in DOMAIN events :
                            /\ events[i] = e
                            /\ \A j \in 1..(i - 1) : events[j] # e
    ELSE 0

PrintedLines == {i \in DOMAIN writes : writes[i].by = "print"}
Tracebacks == {i \in DOMAIN writes : writes[i].by = "traceback"}

\* the subprocess call returned (the path of lines 38-41)
Returned == result # <<>>

-----------------------------------------------------------------------------
(* C1 *)

\* C1, as stated: when expect is found and the subprocess returns code c
\* within the timeout, the exit status of the script is exactly c, for
\* every c.
C1_ExitStatusIsReturnCode ==
    (Returned /\ pc = "done") => exitStatus = <<result[1].returncode>>

\* C1, amended: on that path sys.exit is called with exactly c, unclamped;
\* the exit status of the process is c when 0 <= c <= 255, and 256 - N
\* when c = -N reports a child terminated by signal N.
C1_ExitArgumentIsReturnCode ==
    (Returned /\ pc = "done") =>
        LET c == result[1].returncode
        IN  /\ ended = "SystemExit"
            /\ exitArg = <<c>>
            /\ (c \in 0..255 => exitStatus = <<c>>)
            /\ (c \in -255..-1 => exitStatus = <<256 + c>>)

C1_Witness ==
    /\ Returned
    /\ pc = "done"
    /\ result[1].returncode = 255
    /\ exitStatus = <<255>>

-----------------------------------------------------------------------------
(* C2 *)

\* C2: when there is no expect executable, the run prints the manual
\* fallback block, which contains the literal host address, then exits
\* with status 1; no subprocess is ever started in that run.
C2_MissingUtilityFallsBack ==
    (~expectInstalled) =>
        /\ child = NoChild
        /\ ~Happened("spawn")
        /\ (Happened("run") /\ pc = "done") =>
              /\ Len(writes) = 9
              /\ \A i \in DOMAIN writes : writes[i].by = "print"
              /\ Contains(writes[1].text, FallbackNotice)
              /\ \E i \in DOMAIN writes : Contains(writes[i].text, VPS_IP)
              /\ ended = "SystemExit"
              /\ exitArg = <<1>>
              /\ exitStatus = <<1>>
        /\ (Happened("run") /\ pc # "done") => exitStatus = <<>>

C2_Witness ==
    /\ ~expectInstalled
    /\ Happened("run")
    /\ pc = "done"
    /\ exitStatus = <<1>>

-----------------------------------------------------------------------------
(* C3 *)

\* C3: when setup-on-server.sh does not exist, the run ends with a
\* non-zero status through an unhandled error, before the transcript is
\* built and before any subprocess is launched; the fallback block is not
\* printed, because the except clause does not cover the open.
C3_MissingFileIsUnhandled ==
    (fs = NoFile) =>
        /\ setup_script = Unset
        /\ expect_script = Unset
        /\ child = NoChild
        /\ ~Happened("build") /\ ~Happened("run") /\ ~Happened("fallback")
        /\ PrintedLines = {}
        /\ pc \in {"open", "done"}
        /\ (pc = "done") =>
              /\ ended = "FileNotFoundError"
              /\ exitArg = <<>>
              /\ Len(exitStatus) = 1 /\ exitStatus[1] # 0
              /\ Len(writes) = 1 /\ Tracebacks = {1}

C3_Witness ==
    /\ fs = NoFile
    /\ pc = "done"
    /\ ended = "FileNotFoundError"

-----------------------------------------------------------------------------
(* C4 *)

\* C4, as stated: on the fallback path the notice and the manual
\* instructions are written to standard error, not to standard output.
C4_FallbackOnStderr ==
    Happened("fallback") =>
        \A i \in PrintedLines : writes[i].file = "stderr"

\* C4, amended: on the fallback path the notice and the manual
\* instructions are written to standard output, and nothing is written to
\* standard error.
C4_FallbackOnStdout ==
    Happened("fallback") =>
        /\ PrintedLines = 1..9
        /\ \A i \in DOMAIN writes : writes[i].file = "stdout"

C4_Witness ==
    /\ Happened("fallback")
    /\ Len(writes) = 9
    /\ Contains(writes[5].text, ScpPrefix)

-----------------------------------------------------------------------------
(* C5 *)

\* C5: when the subprocess outlives the 600-second timeout, the error is
\* not caught: the run ends with an unhandled error, prints neither
\* captured output nor the fallback instructions, and passes through
\* neither sys.exit.
C5_TimeoutIsUnhandled ==
    Happened("timeout") =>
        /\ pc = "done"
        /\ ended = "TimeoutExpired"
        /\ exitArg = <<>>
        /\ result = <<>>
        /\ PrintedLines = {}
        /\ ~Happened("fallback") /\ ~Happened("exit")
        /\ ~Happened("print_stdout") /\ ~Happened("check_stderr")
        /\ Len(writes) = 1 /\ Tracebacks = {1}
        /\ Len(exitStatus) = 1 /\ exitStatus[1] # 0

C5_Witness ==
    /\ Happened("timeout")
    /\ child.state = "killed"
    /\ pc = "done"

-----------------------------------------------------------------------------
(* C6 *)

\* the ways a run ends that have been recorded: calls of sys.exit and
\* errors nothing caught
Outcomes == Count(events, "exit") + Cardinality(Tracebacks)

\* C6: the subprocess is launched at most once per run; nothing is retried
\* after a missing file, a missing executable, a non-zero return code or a
\* timeout; a run that has ended takes no further step, and every run ends
\* in exactly one outcome.
C6_SingleAttemptSingleOutcome ==
    /\ Count(events, "spawn") <= 1
    /\ Count(events, "run") <= 1
    /\ Count(events, "open") <= 1
    /\ Len(events) <= 9
    /\ (pc = "done") =>
          /\ ~ENABLED Next
          /\ Outcomes = 1
          /\ ended \in {"SystemExit", "FileNotFoundError", "TimeoutExpired"}
          /\ Len(exitStatus) = 1
    /\ (pc # "done") =>
          /\ ENABLED Next
          /\ Outcomes = 0
          /\ ended = "no"
          /\ exitStatus = <<>>

C6_Witness ==
    /\ pc = "done"
    /\ Count(events, "spawn") = 1
    /\ Returned
    /\ result[1].returncode = 1

-----------------------------------------------------------------------------
(* C7 *)

\* the steps of the session, as they are written in a transcript for
\* `script`
Steps(script) ==
    << SetTimeout,
       SpawnSshPrefix \o VPS_USER \o <<"@">> \o VPS_IP \o <<"\n">>,
       ExpectPassword,
       SendOpen \o VPS_PASS \o CrClose,
       ExpectPrompt,
       SendHeredocOpen,
       SendOpen \o script \o QuoteNl,
       SendHeredocClose,
       ExpectPrompt,
       SendExit,
       ExpectEof >>

\* where step n starts when the steps follow the interpreter line one
\* directly after the other
RECURSIVE StartOfStep(_, _)
StartOfStep(steps, n) ==
    IF n = 1 THEN Len(Shebang) + 1
    ELSE StartOfStep(steps, n - 1) + Len(steps[n - 1])

\* s is the text of t from position p on
At(t, s, p) ==
    /\ p + Len(s) - 1 <= Len(t)
    /\ \A k \in 1..Len(s) : t[p + k - 1] = s[k]

\* C7: the transcript lists, in this order: set timeout 300; spawn ssh with
\* host-key checking disabled; expect the password prompt; send the
\* password; expect the shell prompt; open the heredoc; send the script
\* body as one block; close the heredoc; expect the prompt; send exit;
\* expect eof.  Each step starts where the previous one ends and the last
\* one ends the transcript.  The password is sent nowhere before the first
\* expect of its prompt, and the body nowhere before the heredoc is opened
\* nor after it is closed.
C7_TranscriptStepOrder ==
    (expect_script # Unset) =>
        LET t == expect_script
            steps == Steps(setup_script)
            n == Len(steps)
        IN  /\ At(t, Shebang, 1)
            /\ \A i \in 1..n : At(t, steps[i], StartOfStep(steps, i))
            /\ StartOfStep(steps, n) + Len(steps[n]) = Len(t) + 1
            /\ Find(t, steps[3], 1) > 0
            /\ Find(t, steps[4], 1) > Find(t, steps[3], 1)
            /\ Find(t, steps[6], 1) > Find(t, steps[4], 1)
            /\ Find(t, steps[7], 1) > Find(t, steps[6], 1)
            /\ Find(t, steps[8], 1) > Find(t, steps[7], 1)

C7_Witness ==
    /\ expect_script # Unset
    /\ setup_script = <<"a", "\n">>
    /\ child.state = "running"

-----------------------------------------------------------------------------
(* C8 *)

\* C8: once the subprocess has returned, its standard output is printed to
\* stdout whatever it is and whatever the return code; its standard error
\* is printed to stderr exactly when it is not empty; stdout is printed
\* first, and both are printed before the process exits.
C8_OutputPrintedBeforeExit ==
    Returned =>
        LET r == result[1]
            n == IF r.stderr = <<>> THEN 1 ELSE 2
        IN  /\ (pc = "print_stdout") => writes = <<>>
            /\ (pc = "check_stderr") => Len(writes) = 1
            /\ (pc \in {"exit", "done"}) => Len(writes) = n
            /\ (pc # "done") => exitStatus = <<>>
            /\ (Len(writes) >= 1) =>
                  /\ writes[1].file = "stdout"
                  /\ writes[1].text = r.stdout \o <<"\n">>
            /\ (Len(writes) >= 2) =>
                  /\ writes[2].file = "stderr"
                  /\ Contains(writes[2].text, r.stderr)
                  /\ Contains(writes[2].text, StderrTag)

C8_Witness ==
    /\ Returned
    /\ pc = "done"
    /\ result[1].stdout = <<>>
    /\ result[1].stderr # <<>>
    /\ result[1].returncode = 0
    /\ Len(writes) = 2

-----------------------------------------------------------------------------
(* C9 *)

-----------------------------------------------------------------------------
(* C10 *)

\* C10: the transcript is complete before the subprocess is started, is
\* built once per run and is not modified afterwards: from the launch to
\* the end of the process it is the text the subprocess was given; the
\* bootstrap file is read once, before the transcript is built.
C10_TranscriptFixedFromLaunch ==
    /\ Count(events, "read") <= 1
    /\ Count(events, "build") <= 1
    /\ Happened("build") => (Happened("read") /\ Position("read") < Position("build"))
    /\ (child.state # "none") =>
          /\ expect_script # Unset
          /\ expect_script = child.argv[3]
          /\ Count(events, "read") = 1
          /\ Count(events, "build") = 1
          /\ Position("build") < Position("spawn")

C10_Witness ==
    /\ child.state = "exited"
    /\ pc = "done"
    /\ expect_script = child.argv[3]
    /\ Len(setup_script) = MaxLen

=============================================================================
